---- MODULE Spec2Model ----
(***************************************************************************)
(* A model of octokit.resources.Resource: the lazy resource node, its      *)
(* attribute resolution, its request builder and refresh().                *)
(*                                                                         *)
(* Python values are tagged records [k |-> kind, v |-> payload]; the       *)
(* absent schema and the JSON null are both Python's None.  A string is    *)
(* kept in parsed form: its scheme, its literal text, the variables of its *)
(* path-level template expressions, the variables of a trailing "{?...}"   *)
(* expression, the variables an expansion has bound and the names of the   *)
(* query parameters appended to it.                                        *)
(***************************************************************************)
EXTENDS Integers, Sequences, FiniteSets, TLC

VARIABLES node, last, loaded, steps

vars == <<node, last, loaded, steps>>

(* ----------------------------- bounds --------------------------------- *)
\* the largest number of named arguments one verb invocation carries
MaxKwargs == 2
\* the number of operations the caller performs in one run
MaxSteps == 3
\* index accesses use the integers -MaxIndex .. MaxIndex
MaxIndex == 3

(* --------------------------- Python values ----------------------------- *)
None == [k |-> "null"]
PyStr(s) == [k |-> "str", v |-> s]
PyInt(n) == [k |-> "int", v |-> n]
PyDict(f) == [k |-> "dict", v |-> f]
PyList(s) == [k |-> "list", v |-> s]

Str(scheme, rest, pvars, qvars) ==
    PyStr([scheme |-> scheme, rest |-> rest, vars |-> pvars, qvars |-> qvars,
           bound |-> {}, query |-> {}])
Text(t) == Str("", t, {}, {})

\* bool(value) as Python computes it for the values above
Truthy(x) ==
    CASE x.k = "null" -> FALSE
      [] x.k = "int" -> x.v # 0
      [] x.k = "str" -> ~(x.v.scheme = "" /\ x.v.rest = "" /\ x.v.vars = {}
                          /\ x.v.qvars = {})
      [] x.k = "dict" -> DOMAIN x.v # {}
      [] x.k = "list" -> Len(x.v) > 0
      [] OTHER -> TRUE

(* ------------------------ the naming oracle ---------------------------- *)
\* inflection.humanize: "_" to " ", all lower case, first letter upper case
humanize(w) ==
    CASE w = "owner" -> "Owner"
      [] w = "issues" -> "Issues"
      [] w = "labels" -> "Labels"
      [] w = "user" -> "User"
      [] w = "git" -> "Git"
      [] w = "mirror" -> "Mirror"
      [] w = "closed_by" -> "Closed by"
      [] w = "API Root" -> "Api root"
      [] OTHER -> w

\* inflection.singularize
singularize(w) ==
    CASE w = "Issues" -> "Issue"
      [] w = "Labels" -> "Label"
      [] w = "issues" -> "issue"
      [] w = "labels" -> "label"
      [] OTHER -> w

(* ------------------------- the data of the runs ------------------------ *)
UserTemplate == Str("https", "api.x/users", {"user"}, {})
ReposTemplate == Str("https", "api.x/users/repos", {"user"}, {"page"})
OddTemplate == Str("https", "api.x/odd", {"headers", "params"}, {})
ApiUrl == Str("https", "api.x", {}, {})
RepoUrl == Str("https", "api.x/repos/1", {}, {})
IssuesUrl == Str("https", "api.x/repos/1/issues", {}, {})
Issue2Url == Str("https", "api.x/repos/1/issues/2", {}, {})
GitUrl == Str("git", "x/hello.git", {}, {})

user_octocat == PyDict("login" :> Text("octocat") @@ "type" :> Text("User"))
user_lich == PyDict("login" :> Text("lich"))

repo_1 ==
    PyDict("git_url" :> GitUrl @@ "issues_url" :> IssuesUrl
           @@ "user_url" :> UserTemplate
           @@ "mirror_url" :> None @@ "mirror" :> Text("__None__")
           @@ "owner" :> user_octocat @@ "url" :> RepoUrl)

issue2_part == PyDict("state" :> Text("closed") @@ "url" :> Issue2Url)
issue2 ==
    PyDict("state" :> Text("closed") @@ "url" :> Issue2Url
           @@ "closed_by" :> user_lich)
issues == PyList(<<issue2_part, Text("bug")>>)

\* the text of a response body that is no JSON document (an empty body)
NoBody == [k |-> "nobody"]

Bodies == {None, PyDict(<<>>), PyList(<<>>), repo_1, issues, issue2}
ErrorBody == PyDict("message" :> Text("Not Found"))

NextLink == "next" :> IssuesUrl

FieldNames ==
    {"git", "issues", "user", "mirror", "owner", "url", "state", "closed_by"}

(* ------------------------- the Transport ------------------------------- *)
NoResponse == [status |-> 0]
NoRequest == [method |-> "", url |-> None, overrides |-> {}]

\* The envelopes a session may answer a request for url with: a JSON body
\* or none under 200 (a page of issues may come with a "next" link), no body
\* under 304, an error document under 404.
Responses(url) ==
    {[status |-> 200, body |-> b, links |-> <<>>, url |-> url] :
        b \in Bodies \cup {NoBody}}
    \cup {[status |-> 200, body |-> issues, links |-> NextLink, url |-> url],
          [status |-> 304, body |-> NoBody, links |-> <<>>, url |-> url],
          [status |-> 404, body |-> ErrorBody, links |-> <<>>, url |-> url]}

\* bool(response): requests answers response.ok, False from status 400 on
ResponseOk(response) == response # NoResponse /\ response.status < 400

(* --------------------- outcomes of a Python call ----------------------- *)
Return(value) == [exc |-> "", args |-> {}, ret |-> value]
Raise(e, a) == [exc |-> e, args |-> a, ret |-> None]
ResourceValue(r) == [k |-> "Resource", v |-> r]
AttrName(s) == [k |-> "name", v |-> s]

(* --------------------------- Resource ---------------------------------- *)
\* url[:url.find('{?')]
StripParameters(url) ==
    IF url.k = "str" THEN PyStr([url.v EXCEPT !.qvars = {}]) ELSE url

BareResource(name, url) ==
    [name |-> name, url |-> StripParameters(url), schema |-> None,
     rels |-> <<>>, response |-> 0]

parse_rels(name, response) ==
    [rel \in DOMAIN response.links |-> BareResource(name, response.links[rel])]

\* response.json(): a body that is no JSON document raises
JsonRaises(response) == response.body = NoBody

\* a constructor that takes a response without a body for the JSON null
ResourceInit_EmptyBodyIsNone(name, url, schema, response) ==
    IF url.k \notin {"null", "str"} THEN Raise("AttributeError", {})
    ELSE
      LET ok == ResponseOk(response)
          body == IF ok /\ JsonRaises(response) THEN None ELSE response.body
          schema1 == IF ok THEN body ELSE schema
          rels1 == IF ok THEN parse_rels(name, response) ELSE <<>>
          url1 == IF ok THEN response.url ELSE StripParameters(url)
          url2 == IF schema1.k = "dict" /\ "url" \in DOMAIN schema1.v
                  THEN schema1.v["url"] ELSE url1
      IN Return(ResourceValue(
            [name |-> name, url |-> url2, schema |-> schema1,
             rels |-> rels1, response |-> response.status]))

\* Resource.__init__; the outcome is the new object or the exception
ResourceInit(name, url, schema, response) ==
    IF url.k \notin {"null", "str"} THEN Raise("AttributeError", {})
    ELSE IF ResponseOk(response) /\ JsonRaises(response)
    THEN Raise("ValueError", {})
    ELSE
      LET ok == ResponseOk(response)
          schema1 == IF ok THEN response.body ELSE schema
          rels1 == IF ok THEN parse_rels(name, response) ELSE <<>>
          url1 == IF ok THEN response.url ELSE StripParameters(url)
          url2 == IF schema1.k = "dict" /\ "url" \in DOMAIN schema1.v
                  THEN schema1.v["url"] ELSE url1
      IN Return(ResourceValue(
            [name |-> name, url |-> url2, schema |-> schema1,
             rels |-> rels1, response |-> response.status]))

\* uritemplate.variables(self.url); a url that is no string raises
VariablesRaises(self) == self.url.k # "str"
variables(self) ==
    IF self.url.k = "str" THEN self.url.v.vars \cup self.url.v.qvars ELSE {}

\* uritemplate.expand(self.url, url_args): unbound expressions expand to ""
expand(url, url_args) ==
    PyStr([url.v EXCEPT !.vars = {}, !.qvars = {},
                        !.bound = @ \cup (url_args \cap url.v.vars),
                        !.query = @ \cup (url_args \cap url.v.qvars)])

(* ----------------------- attribute resolution -------------------------- *)
\* the default of self.schema.get(name, '__None__')
Sentinel == Text("__None__")

SchemaGet(d, key) == IF key \in DOMAIN d THEN d[key] ELSE Sentinel

\* the name a nested value is given: its own "type" when it is a dict with one
SmartName(value, name) ==
    IF value.k = "dict" /\ "type" \in DOMAIN value.v
    THEN value.v["type"] ELSE Text(name)

\* the branch of _parse_attribute for a field that has a "_url" sibling
UrlAttribute(self, name, value) ==
    ResourceInit(humanize(name), value, None, NoResponse)

\* an index check that takes only 0 .. N-1
ListIndexRaises_NoNegative(seq, i) == ~(0 <= i /\ i < Len(seq))

\* self.schema[name] for a list and an int, by Python's rules: 0 .. N-1 count
\* from the front, -N .. -1 from the back, anything else raises IndexError
ListIndexRaises(seq, i) == ~(-Len(seq) <= i /\ i < Len(seq))
ListIndex(seq, i) == IF i >= 0 THEN seq[i + 1] ELSE seq[Len(seq) + i + 1]

\* the branch of _parse_attribute for a list schema and an int
ListElement(self, i) ==
    IF ListIndexRaises(self.schema.v, i) THEN Raise("IndexError", {})
    ELSE ResourceInit(humanize(singularize(self.name)), None,
                      ListIndex(self.schema.v, i), NoResponse)

\* the branch of _parse_attribute for a field the dict schema holds
FieldValue(self, name, value) ==
    IF value.k \in {"dict", "list"}
    THEN LET n == SmartName(value, name)
         IN IF n.k # "str" THEN Raise("TypeError", {})
            ELSE ResourceInit(humanize(n.v.rest), None, value, NoResponse)
    ELSE Return(value)

parse_attribute(self, name) ==
    IF self.schema.k = "dict" /\ name.k = "name"
    THEN LET value == SchemaGet(self.schema.v, name.v)
             link == SchemaGet(self.schema.v, name.v \o "_url")
         IN IF value # Sentinel THEN FieldValue(self, name.v, value)
            ELSE IF link # Sentinel THEN UrlAttribute(self, name.v, link)
            ELSE Raise("AttributeError", {})
    ELSE IF self.schema.k = "list" /\ name.k = "int"
    THEN ListElement(self, name.v)
    ELSE Raise("AttributeError", {})

(* --------------------------- fetch_resource ---------------------------- *)
request_params ==
    {"method", "url", "headers", "files", "data", "json", "params", "auth",
     "cookies", "hooks"}

\* the keys of the mapping a caller passes as params=
ParamsArgument == {"per_page"}

\* kwargs after the positional shorthand of lines 217-218
WithPositional(self, posarg, kwargs) ==
    IF posarg /\ Cardinality(variables(self)) = 1
    THEN kwargs \cup variables(self) ELSE kwargs

\* params = kwargs.pop('params', {})
PoppedParams(kwargs) == IF "params" \in kwargs THEN ParamsArgument ELSE {}

\* the three buckets the loop of lines 223-229 fills; method is not consulted
url_args(self, kwargs) == {k \in kwargs \ {"params"} : k \in variables(self)}
req_args(self, kwargs) ==
    {k \in kwargs \ {"params"} : k \notin variables(self) /\ k \in request_params}
\* a last bucket that is kept for GET only
params_get_only(self, method, kwargs) ==
    IF method = "GET"
    THEN PoppedParams(kwargs)
         \cup {k \in kwargs \ {"params"} :
                 k \notin variables(self) /\ k \notin request_params}
    ELSE PoppedParams(kwargs)

params(self, method, kwargs) ==
    PoppedParams(kwargs)
    \cup {k \in kwargs \ {"params"} :
            k \notin variables(self) /\ k \notin request_params}

\* requests.Request(method, url, **req_args): method and url are already
\* given positionally, a second value for either is a TypeError
RequestRaises(reqargs) == reqargs \cap {"method", "url"} # {}

PreparedRequest(self, method, urlargs, reqargs, prms) ==
    LET url == expand(self.url, urlargs)
    IN [method |-> method,
        url |-> PyStr([url.v EXCEPT !.query = @ \cup prms]),
        overrides |-> reqargs]

\* The outcome of fetch_resource(method, *args, **kwargs) when the session
\* answers with `answer`: what was routed where, whether a request was sent,
\* and the Resource returned or the exception raised.  It never assigns
\* self.schema.
fetch_resource(self, method, posarg, kwargs, answer) ==
    IF VariablesRaises(self)
    THEN [out |-> Raise("TypeError", {}), sent |-> FALSE,
          request |-> NoRequest, response |-> NoResponse,
          url_args |-> {}, req_args |-> {}, params |-> {},
          assigned |-> FALSE]
    ELSE
      LET kw == WithPositional(self, posarg, kwargs)
          ua == url_args(self, kw)
          ra == req_args(self, kw)
          pa == params(self, method, kw)
          rq == PreparedRequest(self, method, ua, ra, pa)
          rp == [answer EXCEPT !.url = rq.url]
      IN IF RequestRaises(ra)
         THEN [out |-> Raise("TypeError", {}), sent |-> FALSE,
               request |-> NoRequest, response |-> NoResponse,
               url_args |-> ua, req_args |-> ra, params |-> pa,
               assigned |-> FALSE]
         ELSE [out |-> ResourceInit(humanize(self.name), None, None, rp),
               sent |-> TRUE, request |-> rq, response |-> rp,
               url_args |-> ua, req_args |-> ra, params |-> pa,
               assigned |-> FALSE]

(* ------------------------ ensure_schema_loaded ------------------------- *)
NotSent(self, out) ==
    [self |-> self, out |-> out, sent |-> FALSE, request |-> NoRequest,
     response |-> NoResponse, assigned |-> FALSE]

\* an ensure_schema_loaded that does not look at the template's variables
ensure_schema_loaded_unguarded(self, answer) ==
    IF Truthy(self.schema) THEN NotSent(self, Return(None))
    ELSE LET f == fetch_resource(self, "GET", FALSE, {}, answer)
         IN [self |-> IF f.out.exc = ""
                      THEN [self EXCEPT !.schema = f.out.ret.v.schema]
                      ELSE self,
             out |-> IF f.out.exc = "" THEN Return(None) ELSE f.out,
             sent |-> f.sent, request |-> f.request, response |-> f.response,
             assigned |-> f.out.exc = ""]

\* self after the call, the outcome, the request it sent if any, and whether
\* self.schema was assigned
ensure_schema_loaded(self, answer) ==
    IF Truthy(self.schema) THEN NotSent(self, Return(None))
    ELSE IF VariablesRaises(self) THEN NotSent(self, Raise("TypeError", {}))
    ELSE IF variables(self) # {}
    THEN NotSent(self, Raise("Exception", variables(self)))
    ELSE LET f == fetch_resource(self, "GET", FALSE, {}, answer)
         IN [self |-> IF f.out.exc = ""
                      THEN [self EXCEPT !.schema = f.out.ret.v.schema]
                      ELSE self,
             out |-> IF f.out.exc = "" THEN Return(None) ELSE f.out,
             sent |-> f.sent, request |-> f.request, response |-> f.response,
             assigned |-> f.out.exc = ""]

(* ------------------------ keys() and __repr__ -------------------------- *)
KeysValue(names) == [k |-> "keys", v |-> names]

keys(self, answer) ==
    LET e == ensure_schema_loaded(self, answer)
    IN IF e.out.exc # "" THEN e
       ELSE [e EXCEPT !.out = IF e.self.schema.k = "dict"
                               THEN Return(KeysValue(DOMAIN e.self.schema.v))
                               ELSE Raise("AttributeError", {})]

ReprValue(name, shape, names, count, value) ==
    [k |-> "repr",
     v |-> [name |-> name, shape |-> shape, names |-> names, count |-> count,
            value |-> value]]

repr(self, answer) ==
    IF VariablesRaises(self) THEN NotSent(self, Raise("TypeError", {}))
    ELSE IF variables(self) # {}
    THEN NotSent(self, Return(ReprValue(self.name, "template",
                                        variables(self), 0, None)))
    ELSE LET e == ensure_schema_loaded(self, answer)
             schema == e.self.schema
         IN IF e.out.exc # "" THEN e
            ELSE [e EXCEPT !.out =
                    Return(CASE schema.k = "dict" ->
                                  ReprValue(self.name, "dict", DOMAIN schema.v,
                                            0, None)
                             [] schema.k = "list" ->
                                  ReprValue(self.name, "list", {},
                                            Len(schema.v), None)
                             [] OTHER ->
                                  ReprValue(self.name, "scalar", {}, 0,
                                            schema))]

(* ------------------- __getattr__ and __getitem__ ----------------------- *)
\* ensure_schema_loaded() and then _parse_attribute(name)
getitem(self, name, answer) ==
    LET e == ensure_schema_loaded(self, answer)
    IN IF e.out.exc # "" THEN e
       ELSE [e EXCEPT !.out = parse_attribute(e.self, name)]

(* ------------------------------ refresh -------------------------------- *)
refresh(self, answer) ==
    LET f == fetch_resource(self, "GET", FALSE, {}, answer)
    IN [self |-> IF f.out.exc = ""
                 THEN [self EXCEPT !.schema = f.out.ret.v.schema]
                 ELSE self,
        out |-> IF f.out.exc = "" THEN Return(None) ELSE f.out,
        sent |-> f.sent, request |-> f.request, response |-> f.response,
        assigned |-> f.out.exc = ""]

(* ----------------------------- the state -------------------------------- *)
\* node: the Resource the caller holds.  last: the caller's last operation
\* on it: its arguments, the node before it, the request it sent and the
\* answer, where fetch_resource routed the named arguments, whether it
\* assigned self.schema, and its outcome.
\* loaded: whether the node's schema has been supplied at construction or
\* obtained by a fetch; last.loaded is its value before the operation.
Methods == {"GET", "POST"}
ArgNames == {"user", "page", "headers", "params", "method"}
CallArgNames == {"user"}
Indexes == (0 - MaxIndex) .. MaxIndex
AccessKeys == {AttrName(n) : n \in FieldNames} \cup {PyInt(i) : i \in Indexes}
AnyAnswer == Responses(None)

\* the answers that matter to an operation that starts with
\* ensure_schema_loaded: any when it will send a request, one otherwise
LoadAnswers(self) ==
    IF ~Truthy(self.schema) /\ ~VariablesRaises(self) /\ variables(self) = {}
    THEN AnyAnswer ELSE {NoResponse}

Operation(op, key, method, posarg, kwargs, pre, was, r, routed) ==
    [op |-> op, key |-> key, method |-> method, posarg |-> posarg,
     kwargs |-> kwargs, pre |-> pre, loaded |-> was, sent |-> r.sent,
     request |-> r.request, response |-> r.response, exc |-> r.out.exc,
     args |-> r.out.args, ret |-> r.out.ret, url_args |-> routed.url_args,
     req_args |-> routed.req_args, params |-> routed.params,
     assigned |-> r.assigned]

NotRouted == [url_args |-> {}, req_args |-> {}, params |-> {}]
Nothing == NotSent(None, Return(None))

\* whether a Resource just constructed holds a schema that was supplied to
\* it or read from an answer
Loaded(r) == (r.response # 0 /\ r.response < 400) \/ r.schema # None

\* whether the node holds such a schema after an operation that may have
\* assigned self.schema from the Resource a fetch returned
LoadedAfter(r) == IF r.assigned THEN ResponseOk(r.response) ELSE loaded

RootNames == {"API Root"}
RootUrls == {ApiUrl, ReposTemplate, OddTemplate}
RootSchemas == {None, PyDict(<<>>)}

\* one more operation of the caller
Step == steps < MaxSteps /\ steps' = steps + 1

\* a client at the API's root
Init ==
    \E name \in RootNames, schema \in RootSchemas :
        /\ node = ResourceInit(name, ApiUrl, schema, NoResponse).ret.v
        /\ last = Operation("init", None, "", FALSE, {}, node, FALSE,
                            Nothing, NotRouted)
        /\ loaded = FALSE
        /\ steps = 0

\* a Resource bound to any of the root urls, about to be invoked once
RoutingInit ==
    \E name \in RootNames, url \in RootUrls, schema \in RootSchemas :
        /\ node = ResourceInit(name, url, schema, NoResponse).ret.v
        /\ last = Operation("init", None, "", FALSE, {}, node, FALSE,
                            Nothing, NotRouted)
        /\ loaded = FALSE
        /\ steps = MaxSteps - 1

GetAttr ==
    /\ Step
    /\ \E n \in FieldNames \ {"url"}, answer \in LoadAnswers(node) :
        LET r == getitem(node, AttrName(n), answer)
        IN /\ node' = r.self
           /\ last' = Operation("getattr", AttrName(n), "", FALSE, {}, node,
                                loaded, r, NotRouted)
           /\ loaded' = LoadedAfter(r)

GetItem ==
    /\ Step
    /\ \E key \in AccessKeys, answer \in LoadAnswers(node) :
        LET r == getitem(node, key, answer)
        IN /\ node' = r.self
           /\ last' = Operation("getitem", key, "", FALSE, {}, node,
                                loaded, r, NotRouted)
           /\ loaded' = LoadedAfter(r)

Keys ==
    /\ Step
    /\ \E answer \in LoadAnswers(node) :
        LET r == keys(node, answer)
        IN /\ node' = r.self
           /\ last' = Operation("keys", None, "", FALSE, {}, node, loaded, r,
                                NotRouted)
           /\ loaded' = LoadedAfter(r)

Repr ==
    /\ Step
    /\ \E answer \in LoadAnswers(node) :
        LET r == repr(node, answer)
        IN /\ node' = r.self
           /\ last' = Operation("repr", None, "", FALSE, {}, node, loaded, r,
                                NotRouted)
           /\ loaded' = LoadedAfter(r)

Refresh ==
    /\ Step
    /\ \E answer \in AnyAnswer :
        LET r == refresh(node, answer)
        IN /\ node' = r.self
           /\ last' = Operation("refresh", None, "GET", FALSE, {}, node,
                                loaded, r, NotRouted)
           /\ loaded' = LoadedAfter(r)

\* __call__: get(*args, **kwargs)
Call ==
    /\ Step
    /\ \E posarg \in BOOLEAN, kwargs \in SUBSET CallArgNames,
       answer \in AnyAnswer :
        /\ LET f == fetch_resource(node, "GET", posarg, kwargs, answer)
           IN last' = Operation("call", None, "GET", posarg, kwargs, node,
                                loaded, f, f)
        /\ UNCHANGED <<node, loaded>>

\* head(), get(), post(), ...: fetch_resource under the verb's method
Invoke ==
    /\ Step
    /\ \E method \in Methods, posarg \in BOOLEAN, kwargs \in SUBSET ArgNames,
       answer \in AnyAnswer :
        /\ Cardinality(kwargs) <= MaxKwargs
        /\ LET f == fetch_resource(node, method, posarg, kwargs, answer)
           IN last' = Operation("fetch", None, method, posarg, kwargs, node,
                                loaded, f, f)
        /\ UNCHANGED <<node, loaded>>

\* the caller goes on with the Resource the last operation returned
Follow ==
    /\ Step
    /\ last.exc = ""
    /\ last.ret.k = "Resource"
    /\ node' = last.ret.v
    /\ loaded' = Loaded(node')
    /\ last' = Operation("follow", None, "", FALSE, {}, node', loaded',
                         Nothing, NotRouted)

\* the caller goes on with one of the node's link relations
FollowRel ==
    /\ Step
    /\ \E rel \in DOMAIN node.rels :
        /\ node' = node.rels[rel]
        /\ loaded' = Loaded(node')
        /\ last' = Operation("rel", None, "", FALSE, {}, node', loaded',
                             Nothing, NotRouted)

Next ==
    \/ GetAttr
    \/ GetItem
    \/ Keys
    \/ Repr
    \/ Refresh
    \/ Call
    \/ Follow
    \/ FollowRel

Spec == Init /\ [][Next]_vars

RoutingNext == Invoke

RoutingSpec == RoutingInit /\ [][RoutingNext]_vars

(* ------------------------------ claims --------------------------------- *)
FieldAccess == last.op \in {"getattr", "getitem"}

\* C1: a field access on a Resource without a schema whose url still has
\* template variables raises the exception that lists every one of them,
\* sends no request, and leaves the schema absent.
C1_TemplateGuard ==
    (/\ FieldAccess
     /\ last.pre.schema = None
     /\ variables(last.pre) # {})
    => (/\ last.exc = "Exception"
        /\ last.args = last.pre.url.v.vars \cup last.pre.url.v.qvars
        /\ ~last.sent
        /\ node.schema = None)

\* an attribute of the unresolved user template is read
C1_Witness ==
    /\ FieldAccess
    /\ last.pre.schema = None
    /\ last.pre.url = UserTemplate
    /\ last.exc = "Exception"
    /\ last.args = {"user"}

\* C2: when a mapping schema has no key K but has K_url with a string value
\* U, resolving K returns an unresolved Resource bound to U if U's scheme is
\* https, and the raw string U otherwise.
C2_NonHttpsStaysRaw ==
    (/\ FieldAccess
     /\ last.key.k = "name"
     /\ node.schema.k = "dict"
     /\ last.key.v \notin DOMAIN node.schema.v
     /\ (last.key.v \o "_url") \in DOMAIN node.schema.v
     /\ node.schema.v[last.key.v \o "_url"].k = "str")
    => LET U == node.schema.v[last.key.v \o "_url"]
       IN /\ last.exc = ""
          /\ IF U.v.scheme = "https"
             THEN /\ last.ret.k = "Resource"
                  /\ last.ret.v.schema = None
                  /\ last.ret.v.url.k = "str"
                  /\ last.ret.v.url.v.rest = U.v.rest
             ELSE last.ret = U

\* C3: refresh() answered by 304 Not Modified leaves the node's schema and
\* rels as they were before the call.
C3_NotModifiedKeepsState ==
    (last.op = "refresh" /\ last.sent /\ last.response.status = 304)
    => (node.schema = last.pre.schema /\ node.rels = last.pre.rels)

\* a loaded node with link relations is refreshed and answered 304
C3_Witness ==
    /\ last.op = "refresh"
    /\ last.sent
    /\ last.response.status = 304
    /\ last.loaded
    /\ Truthy(last.pre.schema)
    /\ DOMAIN last.pre.rels # {}
    /\ node = last.pre

\* C4: when the Transport answers a request with a status of 400 or more,
\* the operation fails; it returns no Resource built from the answer and the
\* error body does not become a schema.
C4_ErrorStatusFails ==
    (last.sent /\ last.response.status >= 400)
    => (/\ last.exc # ""
        /\ last.ret.k # "Resource"
        /\ node.schema # last.response.body)

TemplateVariables(r) == r.url.v.vars \cup r.url.v.qvars
OnlyIn(k, bucket, others) == k \in bucket /\ k \notin others

C6_NegativeIndexFails ==
    (/\ last.op = "getitem"
     /\ last.key.k = "int"
     /\ last.pre.schema.k = "list"
     /\ Len(last.pre.schema.v) > 0)
    => LET seq == last.pre.schema.v
           i == last.key.v
       IN IF 0 <= i /\ i < Len(seq)
          THEN /\ last.exc = ""
               /\ last.ret.k = "Resource"
               /\ last.ret.v.schema = seq[i + 1]
               /\ last.ret.v.name = humanize(singularize(last.pre.name))
          ELSE last.exc = "IndexError" /\ last.ret = None

\* the access got as far as _parse_attribute: the schema was truthy, or
\* ensure_schema_loaded fetched one
Resolved == Truthy(last.pre.schema) \/ last.assigned

\* C6 as amended: on the sequence schema of length N the node holds once
\* ensure_schema_loaded has run, index i with -N <= i < N gives a Resource
\* holding element i, negative i counting from the end, named
\* humanize(singularize(owner's name)); i >= N or i < -N fails with
\* IndexError and returns nothing.
C6_IndexAccess ==
    (/\ last.op = "getitem"
     /\ last.key.k = "int"
     /\ Resolved
     /\ node.schema.k = "list")
    => LET seq == node.schema.v
           N == Len(seq)
           i == last.key.v
       IN IF 0 - N <= i /\ i < N
          THEN /\ last.exc = ""
               /\ last.ret.k = "Resource"
               /\ last.ret.v.schema = seq[IF i >= 0 THEN i + 1 ELSE N + i + 1]
               /\ last.ret.v.name = humanize(singularize(node.name))
               /\ node.name = "Issues" => last.ret.v.name = "Issue"
          ELSE last.exc = "IndexError" /\ last.ret = None

\* issues[-1] on the two issues gives the last one, named "Issue"
C6_Witness ==
    /\ last.op = "getitem"
    /\ last.key = PyInt(-1)
    /\ node.name = "Issues"
    /\ node.schema = issues
    /\ last.exc = ""
    /\ last.ret.k = "Resource"
    /\ last.ret.v.schema = Text("bug")
    /\ last.ret.v.name = "Issue"

\* the JSON value a field access reads: the field of a mapping schema, the
\* element of a sequence schema
ReadsField ==
    /\ Resolved
    /\ node.schema.k = "dict"
    /\ last.key.k = "name"
    /\ last.key.v \in DOMAIN node.schema.v
ReadsElement ==
    /\ Resolved
    /\ node.schema.k = "list"
    /\ last.key.k = "int"
    /\ 0 - Len(node.schema.v) <= last.key.v
    /\ last.key.v < Len(node.schema.v)
Element ==
    node.schema.v[IF last.key.v >= 0 THEN last.key.v + 1
                  ELSE Len(node.schema.v) + last.key.v + 1]
Projected(value) ==
    IF value.k \in {"dict", "list"}
    THEN last.ret.k = "Resource" /\ last.ret.v.schema = value
    ELSE last.ret = value

\* C7 (fields holding the string "__None__", which the lookup reads as
\* missing, left aside): a successful access hands a composite value back as
\* a Resource holding it and a scalar as the raw scalar, for mapping fields
\* and sequence elements alike, and an access that did not have to load the
\* schema leaves the stored schema as it was.
C7_ScalarsNeverWrapped ==
    (FieldAccess /\ last.exc = "")
    => /\ (ReadsField /\ node.schema.v[last.key.v] # Sentinel)
            => Projected(node.schema.v[last.key.v])
       /\ ReadsElement => Projected(Element)
       /\ Truthy(last.pre.schema) => node.schema = last.pre.schema

\* C8: after a refresh() whose GET is answered with a JSON body, the node's
\* schema and rels are those of the Resource built from that answer.
C8_RefreshReplacesRels ==
    (/\ last.op = "refresh"
     /\ last.sent
     /\ last.response.status = 200
     /\ last.response.body # NoBody)
    => /\ node.schema = last.response.body
       /\ DOMAIN node.rels = DOMAIN last.response.links
       /\ \A rel \in DOMAIN node.rels :
            node.rels[rel].url = last.response.links[rel]

\* C9: whenever the node's schema is a mapping with a "url" key, the node's
\* url is that value.
C9_UrlFollowsSchema ==
    (node.schema.k = "dict" /\ "url" \in DOMAIN node.schema.v)
    => node.url = node.schema.v["url"]

\* C10: once the node's schema has been supplied at construction or obtained
\* by a fetch, a field access, keys() or __repr__ sends no request.
C10_LoadsOnce ==
    (last.op \in {"getattr", "getitem", "keys", "repr"} /\ last.loaded)
    => ~last.sent

====
